---- MODULE Spec2Model ----
(***************************************************************************)
(* A model of BaseRepository (src/src/base-repository.ts): the generic     *)
(* repository facade over a Mongoose model.  The collection, the sessions  *)
(* and the driver's transaction primitive are the environment the facade   *)
(* calls; the facade's own methods are the actions and operators below.    *)
(***************************************************************************)
EXTENDS Integers, Sequences, FiniteSets, TLC

VARIABLES
    collection,   \* the committed documents, in insertion (natural) order
    nextId,       \* the counter of _ids made outside a transaction
    sessions,     \* sessions opened so far: sequence of [state, ends]
    pc,           \* withTransaction: where each caller's call stands
    sess,         \* withTransaction: the session of the call (0: none)
    cbSession,    \* the session fn was last invoked with (0: not invoked)
    attempt,      \* how often the driver has invoked fn in this call
    staged,       \* documents written with the session, not yet committed
    result,       \* the local `result` of withTransaction
    thrown,       \* the error travelling up the call, "none" if none
    delivered,    \* what the caller of withTransaction received
    hist,         \* observations about the call, read by the properties
    last,         \* the last repository call made directly: inputs, outcome
    pg            \* paginate: the call in flight, its two queries, its outcome

txnVars == <<sessions, pc, sess, cbSession, attempt, staged, result, thrown,
             delivered, hist>>
dbVars == <<collection, nextId>>
callVars == <<last, pg>>

----------------------------------------------------------------------------
(* Bounds of the model *)

MaxWrites == 2
MaxAttempts == 2
MaxEmails == 2
MaxCreates == 3
MaxTotal == 25
MaxPage == 4
MaxLimit == 10

(* The callers that may run withTransaction concurrently *)
Calls == {"c1", "c2"}

(* An email address, by its parts *)
Email(i) == <<"user", i, "@x.com">>
Emails == {Email(i) : i \in 1..MaxEmails}
Values == {"v1", "v2"}

Undefined == "undefined"

EntityName == "User"

----------------------------------------------------------------------------
(* Documents and the collection *)

(* A fresh _id: made by the client from who creates it (session, attempt; 0, 0
   outside a transaction) and a counter, like an ObjectId *)
ObjectId(session, run, n) == <<session, run, n>>

Doc(id, email, active) == [_id |-> id, email |-> email, isActive |-> active]

RECURSIVE SeqToSet(_)
SeqToSet(s) == IF s = <<>> THEN {} ELSE {Head(s)} \cup SeqToSet(Tail(s))

Ids(docs) == {d._id : d \in SeqToSet(docs)}

(* The unique index on email (README: @Prop({ unique: true })) *)
EmailTaken(docs, email) == \E d \in SeqToSet(docs) : d.email = email

----------------------------------------------------------------------------
(* Errors: every thrown value is a record of this shape *)

NoKeyPattern == [present |-> FALSE, keys |-> <<>>]
KeyPattern(keys) == [present |-> TRUE, keys |-> keys]

Err(name, isError, hasCode, code, kp, label, message) ==
    [name |-> name, isError |-> isError, hasCode |-> hasCode, code |-> code,
     keyPattern |-> kp, label |-> label, message |-> message]

NoError == Err("none", FALSE, FALSE, 0, NoKeyPattern, "none", <<>>)

(* What the driver raises *)
DuplicateKey(kp) ==
    Err("MongoServerError", TRUE, TRUE, 11000, kp, "none", <<"E11000">>)
WriteConflict ==
    Err("MongoServerError", TRUE, TRUE, 112, NoKeyPattern,
        "TransientTransactionError", <<"WriteConflict">>)
CommitError ==
    Err("MongoServerError", TRUE, TRUE, 251, NoKeyPattern, "none",
        <<"NoSuchTransaction">>)
NetworkError ==
    Err("MongoNetworkError", TRUE, FALSE, 0, NoKeyPattern, "none",
        <<"connection closed">>)
DocumentValidationFailure ==
    Err("MongoServerError", TRUE, TRUE, 121, NoKeyPattern, "none",
        <<"Document failed validation">>)
ValidationError ==
    Err("ValidationError", TRUE, FALSE, 0, NoKeyPattern, "none",
        <<"validation failed">>)
(* What a caller's callback raises of its own *)
AppError ==
    Err("Error", TRUE, FALSE, 0, NoKeyPattern, "none", <<"application">>)

ConflictException(message) ==
    Err("ConflictException", TRUE, FALSE, 0, NoKeyPattern, "none", message)
NotFoundException(message) ==
    Err("NotFoundException", TRUE, FALSE, 0, NoKeyPattern, "none", message)

(* Outcomes of a call: a value or a thrown error *)
Ok(v) == [ok |-> TRUE, value |-> v, error |-> NoError]
Threw(e) == [ok |-> FALSE, value |-> Undefined, error |-> e]

(* Object.keys(keyPattern)[0] *)
FirstKey(kp) == IF Len(kp.keys) > 0 THEN kp.keys[1] ELSE Undefined

(* handleDuplicateKeyError without the test of the vendor code: every coded
   error is translated *)
handleDuplicateKeyErrorAnyCode(error) ==
    IF error.isError /\ error.hasCode
    THEN LET field == IF error.keyPattern.present
                      THEN FirstKey(error.keyPattern)
                      ELSE "unknown"
         IN ConflictException(<<EntityName, " with duplicate \"", field,
                                "\" already exists">>)
    ELSE error

(* handleDuplicateKeyError: the value it throws *)
handleDuplicateKeyError(error) ==
    IF error.isError /\ error.hasCode /\ error.code = 11000
    THEN LET field == IF error.keyPattern.present
                      THEN FirstKey(error.keyPattern)
                      ELSE "unknown"
         IN ConflictException(<<EntityName, " with duplicate \"", field,
                                "\" already exists">>)
    ELSE error


(* The unique index on email rejects a duplicate with E11000; kp is the
   keyPattern the error carries (servers before 4.2 and bulk errors carry
   none) *)
RECURSIVE HasDuplicate(_, _)
HasDuplicate(view, docs) ==
    IF docs = <<>> THEN FALSE
    ELSE EmailTaken(view, Head(docs).email)
         \/ HasDuplicate(Append(view, Head(docs)), Tail(docs))

(* A full Mongoose document around the data, and doc.toObject() *)
Hydrate(d) == [hydrated |-> TRUE, data |-> d]
toObject(h) == h.data

(* doc.save(options) *)
DriverSave(view, doc, kp) ==
    IF HasDuplicate(view, <<doc>>) THEN Threw(DuplicateKey(kp))
    ELSE Ok(Hydrate(doc))

(* this.model.insertMany(data, { session }) *)
DriverInsertMany(view, docs, kp) ==
    IF HasDuplicate(view, docs) THEN Threw(DuplicateKey(kp))
    ELSE Ok([i \in 1..Len(docs) |-> Hydrate(docs[i])])

(* create: try { return await doc.save(options) }
           catch (error) { this.handleDuplicateKeyError(error) } *)
create(driverOutcome) ==
    IF driverOutcome.ok THEN driverOutcome
    ELSE Threw(handleDuplicateKeyError(driverOutcome.error))

(* createPlain: (await this.create(data, options)).toObject() *)
createPlain(driverOutcome) ==
    LET doc == create(driverOutcome)
    IN IF doc.ok THEN Ok(toObject(doc.value)) ELSE doc

(* createMany: try { return await insertMany(...) }
               catch (error) { this.handleDuplicateKeyError(error) } *)
createMany(driverOutcome) ==
    IF driverOutcome.ok THEN driverOutcome
    ELSE Threw(handleDuplicateKeyError(driverOutcome.error))

----------------------------------------------------------------------------
(* Reads *)

Null == [isNull |-> TRUE]

(* !doc *)
Falsy(v) == v = Null

(* FilterQuery: {}, { _id: id }, { email: e } or { isActive: b } *)
Filter(field, id, email, active) ==
    [field |-> field, _id |-> id, email |-> email, isActive |-> active]
NoFilter == Filter("none", ObjectId(0, 0, 0), Email(0), FALSE)
ById(id) == Filter("_id", id, Email(0), FALSE)
ByEmail(email) == Filter("email", ObjectId(0, 0, 0), email, FALSE)
ByActive(active) == Filter("isActive", ObjectId(0, 0, 0), Email(0), active)

Matches(d, filter) ==
    CASE filter.field = "none" -> TRUE
      [] filter.field = "_id" -> d._id = filter._id
      [] filter.field = "email" -> d.email = filter.email
      [] filter.field = "isActive" -> d.isActive = filter.isActive

Matching(docs, filter) == SelectSeq(docs, LAMBDA d : Matches(d, filter))

(* A projection names the fields to keep (_id is always kept); {} keeps all *)
Project(d, projection) ==
    IF projection = {} THEN d
    ELSE [f \in projection \cup {"_id"} |-> d[f]]

(* Query.exec() of findOne / findById: the first match, or null *)
ExecOne(docs, filter, projection, lean) ==
    LET m == Matching(docs, filter)
    IN IF m = <<>> THEN Null
       ELSE IF lean THEN Project(Head(m), projection)
            ELSE Hydrate(Project(Head(m), projection))

Reverse(s) == [i \in 1..Len(s) |-> s[Len(s) + 1 - i]]

(* sort: none (natural order) or { createdAt: -1 } (newest first) *)
SortDocs(docs, sort) == IF sort = "createdAt:-1" THEN Reverse(docs) ELSE docs

Skip(docs, n) == IF n >= Len(docs) THEN <<>> ELSE SubSeq(docs, n + 1, Len(docs))
(* limit(0) is no limit *)
Limit(docs, n) ==
    IF n = 0 \/ n >= Len(docs) THEN docs ELSE SubSeq(docs, 1, n)

(* Every read may instead fail in the driver: the error is not caught *)
Driver(fails, value) == IF fails THEN Threw(NetworkError) ELSE Ok(value)

findById(docs, id, options, fails) ==
    Driver(fails, ExecOne(docs, ById(id), options.projection, FALSE))

findOne(docs, opts, fails) ==
    Driver(fails, ExecOne(docs, opts.filter, opts.projection, FALSE))

findByIdLean(docs, id, options, fails) ==
    Driver(fails, ExecOne(docs, ById(id), options.projection, TRUE))

findOneLean(docs, opts, fails) ==
    Driver(fails, ExecOne(docs, opts.filter, opts.projection, TRUE))

NotFoundById(id) ==
    NotFoundException(<<EntityName, " with id \"", id, "\" not found">>)
NotFound == NotFoundException(<<EntityName, " not found">>)

(* const doc = await op(...); if (!doc) throw new NotFoundException(...);
   return doc *)
(* an OrFail form that hands back whatever the lookup returned *)
OrFailNoThrow(found, notFound) == found

OrFail(found, notFound) ==
    IF ~found.ok THEN found
    ELSE IF Falsy(found.value) THEN Threw(notFound) ELSE found

findByIdOrFail(docs, id, options, fails) ==
    OrFail(findById(docs, id, options, fails), NotFoundById(id))

findOneOrFail(docs, opts, fails) ==
    OrFail(findOne(docs, opts, fails), NotFound)

findByIdLeanOrFail(docs, id, options, fails) ==
    OrFail(findByIdLean(docs, id, options, fails), NotFoundById(id))

findOneLeanOrFail(docs, opts, fails) ==
    OrFail(findOneLean(docs, opts, fails), NotFound)

(* findLean: filter -> sort -> skip -> limit -> projection *)
findLean(docs, opts) ==
    LET m == Limit(Skip(SortDocs(Matching(docs, opts.filter), opts.sort),
                        opts.skip), opts.limit)
    IN [i \in 1..Len(m) |-> Project(m[i], opts.projection)]

(* a count that ignores the filter *)
countDocumentsUnfiltered(docs, filter) == Len(docs)

(* countDocuments(filter) *)
countDocuments(docs, filter) == Len(Matching(docs, filter))

----------------------------------------------------------------------------
(* withTransaction *)

NewSession == [state |-> "open", ends |-> 0]

NoHist == [writes |-> {}, cb |-> "none", value |-> Undefined, txn |-> "none"]
Pending == [kind |-> "pending", value |-> Undefined, error |-> NoError]

SetSession(sid, st) == [sessions EXCEPT ![sid].state = st]

(* The emails other running transactions have written and not yet committed:
   a write that meets one is a write conflict *)
OthersStaged(c) ==
    {d.email : d \in UNION {SeqToSet(staged[o]) : o \in Calls \ {c}}}

(* endSession placed after the try block instead of in a finally clause *)
LeaveTryNoFinally(err) == IF err = NoError THEN "finally" ELSE "done"

(* Where control goes when the try block is left: the finally clause *)
LeaveTry(err) == "finally"

(* one session kept and handed to every call *)
StartSessionShared(c) ==
    /\ pc[c] = "idle"
    /\ sessions' = IF sessions = <<>> THEN <<NewSession>> ELSE sessions
    /\ sess' = [sess EXCEPT ![c] = 1]
    /\ pc' = [pc EXCEPT ![c] = "opened"]
    /\ UNCHANGED <<callVars, dbVars, cbSession, attempt, staged, result, thrown,
                   delivered, hist>>

(* const session = await this.model.db.startSession() *)
StartSession(c) ==
    /\ pc[c] = "idle"
    /\ sessions' = Append(sessions, NewSession)
    /\ sess' = [sess EXCEPT ![c] = Len(sessions) + 1]
    /\ pc' = [pc EXCEPT ![c] = "opened"]
    /\ UNCHANGED <<callVars, dbVars, cbSession, attempt, staged, result, thrown,
                   delivered, hist>>

(* startSession rejects: no session exists and the error reaches the caller *)
StartSessionFails(c) ==
    /\ pc[c] = "idle"
    /\ pc' = [pc EXCEPT ![c] = "done"]
    /\ delivered' = [delivered EXCEPT ![c] =
                        [kind |-> "threw", value |-> Undefined,
                         error |-> NetworkError]]
    /\ UNCHANGED <<callVars, dbVars, sessions, sess, cbSession, attempt, staged,
                   result, thrown, hist>>

(* session.withTransaction raises before it runs fn *)
PrimitiveRaises(c) ==
    /\ pc[c] = "opened"
    /\ attempt[c] = 0
    /\ thrown' = [thrown EXCEPT ![c] = NetworkError]
    /\ pc' = [pc EXCEPT ![c] = LeaveTry(NetworkError)]
    /\ UNCHANGED <<callVars, dbVars, sessions, sess, cbSession, attempt, staged,
                   result, delivered, hist>>

(* the driver starts a transaction and runs: result = await fn(session) *)
InvokeCallback(c) ==
    /\ pc[c] = "opened"
    /\ attempt[c] < MaxAttempts
    /\ attempt' = [attempt EXCEPT ![c] = @ + 1]
    /\ cbSession' = [cbSession EXCEPT ![c] = sess[c]]
    /\ sessions' = SetSession(sess[c], "inTransaction")
    /\ staged' = [staged EXCEPT ![c] = <<>>]
    /\ hist' = [hist EXCEPT ![c] = NoHist]
    /\ pc' = [pc EXCEPT ![c] = "running"]
    /\ UNCHANGED <<callVars, dbVars, sess, result, thrown, delivered>>

(* createMany dropping the session *)
WriteSessionDropped(optionsSession, many) ==
    IF many THEN 0 ELSE optionsSession

(* The session the driver call is given: doc.save(options) hands the options
   on, insertMany gets { session: options?.session }.  0: no session *)
WriteSession(optionsSession, many) == optionsSession

(* fn writes through the repository with the session: create(data, {session})
   or createMany(data, {session}).  A write given the session is staged in
   its transaction; a write given none goes to the collection at once *)
CallbackWrite(c, emails, many) ==
    LET docs == [i \in 1..Len(emails) |->
                    Doc(ObjectId(sess[c], attempt[c], Len(staged[c]) + i),
                        emails[i], TRUE)]
        conflict == \E i \in 1..Len(emails) : emails[i] \in OthersStaged(c)
        view == collection \o staged[c]
        kp == KeyPattern(<<"email">>)
        out == IF many
               THEN createMany(IF conflict THEN Threw(WriteConflict)
                               ELSE DriverInsertMany(view, docs, kp))
               ELSE create(IF conflict THEN Threw(WriteConflict)
                           ELSE DriverSave(view, docs[1], kp))
    IN /\ pc[c] = "running"
       /\ cbSession[c] = sess[c]
       /\ Len(staged[c]) + Len(emails) <= MaxWrites
       /\ IF out.ok
          THEN /\ IF WriteSession(cbSession[c], many) = 0
                  THEN /\ collection' = collection \o docs
                       /\ UNCHANGED staged
                  ELSE /\ staged' = [staged EXCEPT ![c] = @ \o docs]
                       /\ UNCHANGED collection
               /\ UNCHANGED nextId
               /\ hist' = [hist EXCEPT ![c].writes = @ \cup Ids(docs)]
               /\ UNCHANGED <<pc, thrown>>
          ELSE /\ thrown' = [thrown EXCEPT ![c] = out.error]
               /\ hist' = [hist EXCEPT ![c].cb = "raised"]
               /\ pc' = [pc EXCEPT ![c] = "raised"]
               /\ UNCHANGED <<collection, staged, nextId>>
       /\ UNCHANGED <<callVars, sessions, sess, cbSession, attempt, result,
                      delivered>>

CallbackCreate(c) ==
    \E e \in Emails : CallbackWrite(c, <<e>>, FALSE)

CallbackCreateMany(c) ==
    \E e1 \in Emails, e2 \in Emails : CallbackWrite(c, <<e1, e2>>, TRUE)

(* fn looks up the record its first create returned: findByIdOrFail takes
   no session, so it reads the committed collection; if it throws, fn
   rejects with that error *)
CallbackFindByIdOrFail(c) ==
    /\ pc[c] = "running"
    /\ cbSession[c] = sess[c]
    /\ staged[c] # <<>>
    /\ LET out == findByIdOrFail(collection, Head(staged[c])._id,
                                 [projection |-> {}], FALSE)
       IN IF out.ok
          THEN UNCHANGED <<pc, thrown, hist>>
          ELSE /\ thrown' = [thrown EXCEPT ![c] = out.error]
               /\ hist' = [hist EXCEPT ![c].cb = "raised"]
               /\ pc' = [pc EXCEPT ![c] = "raised"]
    /\ UNCHANGED <<callVars, dbVars, sessions, sess, cbSession, attempt,
                   staged, result, delivered>>

(* result ??= await fn(session): only the first invocation's value is kept *)
AssignResultOnce(c, v) ==
    IF result[c] = Undefined THEN [result EXCEPT ![c] = v] ELSE result

(* fn resolves with v: line 498 assigns it to result *)
AssignResult(c, v) == [result EXCEPT ![c] = v]

CallbackResolve(c) ==
    /\ pc[c] = "running"
    /\ \E v \in Values :
          /\ result' = AssignResult(c, v)
          /\ hist' = [hist EXCEPT ![c].cb = "resolved", ![c].value = v]
    /\ pc' = [pc EXCEPT ![c] = "resolved"]
    /\ UNCHANGED <<callVars, dbVars, sessions, sess, cbSession, attempt, staged,
                   thrown, delivered>>

(* fn raises an error of its own *)
CallbackRaise(c) ==
    /\ pc[c] = "running"
    /\ thrown' = [thrown EXCEPT ![c] = AppError]
    /\ hist' = [hist EXCEPT ![c].cb = "raised"]
    /\ pc' = [pc EXCEPT ![c] = "raised"]
    /\ UNCHANGED <<callVars, dbVars, sessions, sess, cbSession, attempt, staged,
                   result, delivered>>

(* a commit that reports success and publishes nothing *)
CommitPublishesNothing(c) ==
    /\ pc[c] = "resolved"
    /\ sessions[sess[c]].state = "inTransaction"
    /\ staged' = [staged EXCEPT ![c] = <<>>]
    /\ sessions' = SetSession(sess[c], "committed")
    /\ hist' = [hist EXCEPT ![c].txn = "committed"]
    /\ pc' = [pc EXCEPT ![c] = LeaveTry(NoError)]
    /\ UNCHANGED <<callVars, dbVars, sess, cbSession, attempt, result, thrown,
                   delivered>>

(* fn resolved: the driver commits, and the staged writes become visible *)
Commit(c) ==
    /\ pc[c] = "resolved"
    /\ sessions[sess[c]].state = "inTransaction"
    /\ collection' = collection \o staged[c]
    /\ staged' = [staged EXCEPT ![c] = <<>>]
    /\ sessions' = SetSession(sess[c], "committed")
    /\ hist' = [hist EXCEPT ![c].txn = "committed"]
    /\ pc' = [pc EXCEPT ![c] = LeaveTry(NoError)]
    /\ UNCHANGED <<callVars, nextId, sess, cbSession, attempt, result, thrown,
                   delivered>>

(* the commit fails with a transient error: the driver runs fn again *)
CommitFailsTransient(c) ==
    /\ pc[c] = "resolved"
    /\ attempt[c] < MaxAttempts
    /\ staged' = [staged EXCEPT ![c] = <<>>]
    /\ sessions' = SetSession(sess[c], "aborted")
    /\ hist' = [hist EXCEPT ![c].txn = "aborted"]
    /\ pc' = [pc EXCEPT ![c] = "opened"]
    /\ UNCHANGED <<callVars, dbVars, sess, cbSession, attempt, result, thrown,
                   delivered>>

(* the commit fails for good: session.withTransaction rejects *)
CommitFailsFatal(c) ==
    /\ pc[c] = "resolved"
    /\ staged' = [staged EXCEPT ![c] = <<>>]
    /\ sessions' = SetSession(sess[c], "aborted")
    /\ hist' = [hist EXCEPT ![c].txn = "aborted"]
    /\ thrown' = [thrown EXCEPT ![c] = CommitError]
    /\ pc' = [pc EXCEPT ![c] = LeaveTry(CommitError)]
    /\ UNCHANGED <<callVars, dbVars, sess, cbSession, attempt, result, delivered>>

(* fn raised: the driver aborts, then runs fn again if the error is
   transient and the retry budget lasts, and rethrows the error if not *)
Abort(c) ==
    /\ pc[c] = "raised"
    /\ sessions[sess[c]].state = "inTransaction"
    /\ staged' = [staged EXCEPT ![c] = <<>>]
    /\ sessions' = SetSession(sess[c], "aborted")
    /\ hist' = [hist EXCEPT ![c].txn = "aborted"]
    /\ IF thrown[c].label = "TransientTransactionError"
          /\ attempt[c] < MaxAttempts
       THEN /\ thrown' = [thrown EXCEPT ![c] = NoError]
            /\ pc' = [pc EXCEPT ![c] = "opened"]
       ELSE /\ pc' = [pc EXCEPT ![c] = LeaveTry(thrown[c])]
            /\ UNCHANGED thrown
    /\ UNCHANGED <<callVars, dbVars, sess, cbSession, attempt, result, delivered>>

(* a facade that swallows the error that left the try block and returns
   result *)
EndSessionReturnsResult(c) ==
    /\ pc[c] = "finally"
    /\ sessions' = [sessions EXCEPT ![sess[c]].state = "ended",
                                    ![sess[c]].ends = @ + 1]
    /\ delivered' = [delivered EXCEPT ![c] =
                        [kind |-> "returned", value |-> result[c],
                         error |-> NoError]]
    /\ pc' = [pc EXCEPT ![c] = "done"]
    /\ UNCHANGED <<callVars, dbVars, sess, cbSession, attempt, staged, result, thrown,
                   hist>>

(* finally { await session.endSession() }, after which the call completes:
   return result, or the error that left the try block *)
EndSession(c) ==
    /\ pc[c] = "finally"
    /\ sessions' = [sessions EXCEPT ![sess[c]].state = "ended",
                                    ![sess[c]].ends = @ + 1]
    /\ delivered' = [delivered EXCEPT ![c] =
                        IF thrown[c] = NoError
                        THEN [kind |-> "returned", value |-> result[c],
                              error |-> NoError]
                        ELSE [kind |-> "threw", value |-> Undefined,
                              error |-> thrown[c]]]
    /\ pc' = [pc EXCEPT ![c] = "done"]
    /\ UNCHANGED <<callVars, dbVars, sess, cbSession, attempt, staged, result, thrown,
                   hist>>

withTransaction(c) ==
    \/ StartSession(c)
    \/ StartSessionFails(c)
    \/ PrimitiveRaises(c)
    \/ InvokeCallback(c)
    \/ CallbackCreate(c)
    \/ CallbackCreateMany(c)
    \/ CallbackFindByIdOrFail(c)
    \/ CallbackResolve(c)
    \/ CallbackRaise(c)
    \/ Commit(c)
    \/ CommitFailsTransient(c)
    \/ CommitFailsFatal(c)
    \/ Abort(c)
    \/ EndSession(c)

TxnInit ==
    /\ sessions = <<>>
    /\ pc = [c \in Calls |-> "idle"]
    /\ sess = [c \in Calls |-> 0]
    /\ cbSession = [c \in Calls |-> 0]
    /\ attempt = [c \in Calls |-> 0]
    /\ staged = [c \in Calls |-> <<>>]
    /\ result = [c \in Calls |-> Undefined]
    /\ thrown = [c \in Calls |-> NoError]
    /\ delivered = [c \in Calls |-> Pending]
    /\ hist = [c \in Calls |-> NoHist]

NoCall ==
    [op |-> "none", input |-> Null, pre |-> <<>>, driver |-> Threw(NoError),
     out |-> Threw(NoError), alt |-> Threw(NoError)]

(* A query that has not settled yet *)
Unsettled == Threw(NoError)
Settled(outcome) == outcome.ok \/ outcome.error.name # "none"

(* FindOptions without skip and limit, as paginate takes them *)
FindOptions(filter, projection, sort) ==
    [filter |-> filter, projection |-> projection, sort |-> sort]

(* No paginate call in flight *)
NoPaginate ==
    [pc |-> "idle", page |-> 0, limit |-> 0,
     opts |-> FindOptions(NoFilter, {}, "none"), skip |-> 0,
     filter |-> NoFilter, data |-> Unsettled, total |-> Unsettled,
     first |-> "none", wrote |-> FALSE, out |-> Unsettled]

vars == <<dbVars, txnVars, callVars>>

Init ==
    /\ collection = <<>>
    /\ nextId = 1
    /\ last = NoCall
    /\ pg = NoPaginate
    /\ TxnInit

Next == \E c \in Calls : withTransaction(c)

Spec == Init /\ [][Next]_vars

----------------------------------------------------------------------------
(* Properties of withTransaction *)

Opened(c) == sess[c] # 0
SessionOf(c) == sessions[sess[c]]
InFlight(c) == Opened(c) /\ pc[c] # "done"

(* C1: every withTransaction call that opened a session ends it exactly once
   on every path (commit, abort, the driver's primitive raising): a finished
   call has its session ended, ended once, and a call whose session is still
   open can always take its next step towards ending it. *)
C1_SessionEndedExactlyOnce ==
    \A c \in Calls :
        /\ Opened(c) => SessionOf(c).ends <= 1
        /\ (Opened(c) /\ pc[c] = "done") =>
               SessionOf(c).state = "ended" /\ SessionOf(c).ends = 1
        /\ InFlight(c) => ENABLED withTransaction(c)

C1_Witness ==
    \E c1 \in Calls, c2 \in Calls :
        /\ pc[c1] = "done" /\ hist[c1].txn = "committed"
        /\ SessionOf(c1).ends = 1
        /\ pc[c2] = "done" /\ hist[c2].txn = "aborted"
        /\ delivered[c2].kind = "threw" /\ SessionOf(c2).ends = 1

Visible == Ids(collection)

(* C2 as claimed: after withTransaction returns, the session writes of a
   callback that raised are all invisible and those of a callback that
   completed normally are all visible. *)
C2_AtomicByCallbackOutcome ==
    \A c \in Calls :
        (Opened(c) /\ pc[c] = "done") =>
            /\ hist[c].cb = "raised" => hist[c].writes \cap Visible = {}
            /\ hist[c].cb = "resolved" => hist[c].writes \subseteq Visible

(* C2 amended: after withTransaction returns, the session writes of the
   callback are all visible if the callback completed normally and its
   transaction committed, and none of them is visible if the callback raised
   or the commit failed; never a partial subset. *)
C2_AtomicByTransactionOutcome ==
    \A c \in Calls :
        (Opened(c) /\ pc[c] = "done") =>
            /\ (hist[c].cb = "raised" \/ hist[c].txn # "committed") =>
                   hist[c].writes \cap Visible = {}
            /\ (hist[c].cb = "resolved" /\ hist[c].txn = "committed") =>
                   hist[c].writes \subseteq Visible

C2_Witness ==
    \E c1 \in Calls, c2 \in Calls :
        /\ pc[c1] = "done" /\ hist[c1].cb = "raised"
        /\ hist[c1].writes # {}
        /\ pc[c2] = "done" /\ hist[c2].txn = "committed"
        /\ Cardinality(hist[c2].writes) >= 2

SessionSteps ==
    {<<"open", "inTransaction">>, <<"open", "ended">>,
     <<"inTransaction", "committed">>, <<"inTransaction", "aborted">>,
     <<"aborted", "inTransaction">>, <<"committed", "ended">>,
     <<"aborted", "ended">>}

(* C3: a session is created, used by the callback, committed or aborted, and
   then ended, in that order: the callback never runs on an ended session,
   nothing happens to a session after its end, and two calls never hand the
   same session to their callbacks. *)
C3_SessionLifecycle ==
    /\ [](\A c \in Calls :
            pc[c] \in {"running", "resolved", "raised"} =>
                /\ cbSession[c] = sess[c]
                /\ SessionOf(c).state = "inTransaction")
    /\ [](\A c1 \in Calls, c2 \in Calls :
            (c1 # c2 /\ cbSession[c1] # 0 /\ cbSession[c2] # 0) =>
                cbSession[c1] # cbSession[c2])
    /\ [][\A i \in DOMAIN sessions :
            sessions'[i].state # sessions[i].state =>
                <<sessions[i].state, sessions'[i].state>> \in SessionSteps]_vars

C3_Witness ==
    \E c1 \in Calls, c2 \in Calls :
        /\ c1 # c2
        /\ pc[c1] = "running" /\ pc[c2] = "done"
        /\ cbSession[c1] # 0 /\ cbSession[c2] # 0
        /\ SessionOf(c2).state = "ended"
        /\ attempt[c1] = 2

(* C4: when the callback resolved and the transaction committed, the caller
   receives the value returned by the callback invocation whose transaction
   committed, and receives it only once the session has been ended. *)
C4_ReturnsCommittedValueAfterEnd ==
    \A c \in Calls :
        /\ delivered[c].kind = "returned" =>
               /\ hist[c].txn = "committed"
               /\ delivered[c].value = hist[c].value
               /\ delivered[c].value \in Values
               /\ SessionOf(c).state = "ended"
        /\ (pc[c] = "finally" /\ hist[c].txn = "committed") =>
               /\ delivered[c] = Pending
               /\ result[c] = hist[c].value

C4_Witness ==
    \E c \in Calls :
        /\ delivered[c].kind = "returned"
        /\ attempt[c] = 2
        /\ SessionOf(c).state = "ended"

----------------------------------------------------------------------------
(* Repository calls made directly (outside a transaction) *)

KeyPatterns == {NoKeyPattern, KeyPattern(<<"email">>)}

(* Failures of the driver other than a duplicate key *)
Failures == {NetworkError, ValidationError, DocumentValidationFailure}

(* The keyPattern matters only to an operation the driver does run *)
KeyPatternsWhen(fail) ==
    IF fail = NoError THEN KeyPatterns ELSE {NoKeyPattern}

(* An update's E11000 always names the index here; its one other failure *)
UpdateKeyPattern == KeyPattern(<<"email">>)
UpdateFailures == {NetworkError}

IdInputs == {ObjectId(0, 0, n) : n \in 1..MaxCreates}
Projections == {{}, {"email"}}
Filters ==
    {NoFilter} \cup {ByEmail(e) : e \in Emails}
               \cup {ByActive(b) : b \in BOOLEAN}

(* The caller makes one call at a time: the next one once it has taken the
   outcome of the last *)
Ready == last.op = "none"

Call(op, input, pre, driver, out, alt) ==
    [op |-> op, input |-> input, pre |-> pre, driver |-> driver, out |-> out,
     alt |-> alt]

Create ==
    \E email \in Emails, active \in BOOLEAN, fail \in Failures \cup {NoError} :
      \E kp \in KeyPatternsWhen(fail) :
        LET doc == Doc(ObjectId(0, 0, nextId), email, active)
            driver == IF fail # NoError THEN Threw(fail)
                      ELSE DriverSave(collection, doc, kp)
            out == create(driver)
        IN /\ Ready
           /\ nextId <= MaxCreates
           /\ collection' = IF out.ok THEN Append(collection, doc)
                             ELSE collection
           /\ nextId' = IF out.ok THEN nextId + 1 ELSE nextId
           /\ last' = Call("create", [data |-> doc], collection, driver, out,
                           out)
           /\ UNCHANGED <<pg, txnVars>>

CreatePlain ==
    \E email \in Emails, active \in BOOLEAN, fail \in Failures \cup {NoError} :
      \E kp \in KeyPatternsWhen(fail) :
        LET doc == Doc(ObjectId(0, 0, nextId), email, active)
            driver == IF fail # NoError THEN Threw(fail)
                      ELSE DriverSave(collection, doc, kp)
            out == createPlain(driver)
        IN /\ Ready
           /\ nextId <= MaxCreates
           /\ collection' = IF out.ok THEN Append(collection, doc)
                             ELSE collection
           /\ nextId' = IF out.ok THEN nextId + 1 ELSE nextId
           /\ last' = Call("createPlain", [data |-> doc], collection, driver,
                           out, create(driver))
           /\ UNCHANGED <<pg, txnVars>>

CreateMany ==
    \E e1 \in Emails, e2 \in Emails, fail \in Failures \cup {NoError} :
      \E kp \in KeyPatternsWhen(fail) :
        LET docs == <<Doc(ObjectId(0, 0, nextId), e1, TRUE),
                      Doc(ObjectId(0, 0, nextId + 1), e2, FALSE)>>
            driver == IF fail # NoError THEN Threw(fail)
                      ELSE DriverInsertMany(collection, docs, kp)
            out == createMany(driver)
        IN /\ Ready
           /\ nextId + 1 <= MaxCreates
           /\ collection' = IF out.ok THEN collection \o docs ELSE collection
           /\ nextId' = IF out.ok THEN nextId + 2 ELSE nextId
           /\ last' = Call("createMany", [data |-> docs], collection, driver,
                           out, out)
           /\ UNCHANGED <<pg, txnVars>>

(* A lookup and its OrFail form, on the same input and collection *)
FindByIdPair ==
    \E id \in IdInputs, projection \in Projections, fails \in BOOLEAN :
        LET options == [projection |-> projection]
        IN /\ Ready
           /\ last' = Call("findById", [id |-> id, options |-> options],
                           collection, Driver(fails, Null),
                           findById(collection, id, options, fails),
                           findByIdOrFail(collection, id, options, fails))
           /\ UNCHANGED <<dbVars, pg, txnVars>>

FindByIdLeanPair ==
    \E id \in IdInputs, projection \in Projections, fails \in BOOLEAN :
        LET options == [projection |-> projection]
        IN /\ Ready
           /\ last' = Call("findByIdLean", [id |-> id, options |-> options],
                           collection, Driver(fails, Null),
                           findByIdLean(collection, id, options, fails),
                           findByIdLeanOrFail(collection, id, options, fails))
           /\ UNCHANGED <<dbVars, pg, txnVars>>

FindOnePair ==
    \E filter \in Filters, projection \in Projections, fails \in BOOLEAN :
        LET opts == [filter |-> filter, projection |-> projection]
        IN /\ Ready
           /\ last' = Call("findOne", opts, collection, Driver(fails, Null),
                           findOne(collection, opts, fails),
                           findOneOrFail(collection, opts, fails))
           /\ UNCHANGED <<dbVars, pg, txnVars>>

FindOneLeanPair ==
    \E filter \in Filters, projection \in Projections, fails \in BOOLEAN :
        LET opts == [filter |-> filter, projection |-> projection]
        IN /\ Ready
           /\ last' = Call("findOneLean", opts, collection,
                           Driver(fails, Null),
                           findOneLean(collection, opts, fails),
                           findOneLeanOrFail(collection, opts, fails))
           /\ UNCHANGED <<dbVars, pg, txnVars>>

(* findByIdAndDelete: remove the document and return it, or null *)
FindByIdAndDelete ==
    \E id \in IdInputs :
        LET found == ExecOne(collection, ById(id), {}, FALSE)
        IN /\ Ready
           /\ collection' = SelectSeq(collection, LAMBDA d : d._id # id)
           /\ last' = Call("findByIdAndDelete", [id |-> id], collection,
                           Ok(found), Ok(found), Ok(found))
           /\ UNCHANGED <<nextId, pg, txnVars>>

(* UpdateQuery: { $set: { email } } or { $set: { isActive } } *)
Update(field, email, active) ==
    [field |-> field, email |-> email, isActive |-> active]
Updates ==
    {Update("email", e, FALSE) : e \in Emails}
        \cup {Update("isActive", Email(0), b) : b \in BOOLEAN}

ApplyUpdate(d, update) ==
    IF update.field = "email" THEN [d EXCEPT !.email = update.email]
    ELSE [d EXCEPT !.isActive = update.isActive]

Satisfies(d, update) ==
    IF update.field = "email" THEN d.email = update.email
    ELSE d.isActive = update.isActive

(* QueryOptions the caller may pass: the keys it sets, and their values *)
Options(keys, new, upsert) == [keys |-> keys, new |-> new, upsert |-> upsert]
NoOptions == Options({}, FALSE, FALSE)
CallerOptions ==
    {NoOptions, Options({"new"}, FALSE, FALSE),
     Options({"upsert"}, FALSE, FALSE)}

(* What a caller may pass to findOneAndUpdate[Lean]: an upsert as well (an
   upsert by _id would need an _id that no create will ever make) *)
UpdateCallerOptions == CallerOptions \cup {Options({"upsert"}, FALSE, TRUE)}

(* a spread in which the fixed keys are missing *)
SpreadNoDefaults(new, upsert, options) ==
    [new |-> "new" \in options.keys /\ options.new,
     upsert |-> "upsert" \in options.keys /\ options.upsert]

(* { new: ..., upsert: ..., ...options }: the caller's keys are spread last
   and replace the fixed ones *)
Spread(new, upsert, options) ==
    [new |-> IF "new" \in options.keys THEN options.new ELSE new,
     upsert |-> IF "upsert" \in options.keys THEN options.upsert ELSE upsert]

(* The document an upsert inserts: the filter's equality fields and the
   schema defaults (isActive: true); Email(0) stands for no email *)
UpsertBase(id, filter) ==
    Doc(IF filter.field = "_id" THEN filter._id ELSE id,
        IF filter.field = "email" THEN filter.email ELSE Email(0),
        IF filter.field = "isActive" THEN filter.isActive ELSE TRUE)

RECURSIVE UniqueEmails(_)
UniqueEmails(docs) ==
    docs = <<>> \/ (~EmailTaken(Tail(docs), Head(docs).email)
                     /\ UniqueEmails(Tail(docs)))

Written(out, docs) == [out |-> out, docs |-> docs]

(* Model.findOneAndUpdate(filter, update, options).exec() in the driver:
   the outcome and the collection it leaves *)
DriverFindOneAndUpdate(docs, id, filter, update, opts, lean, kp) ==
    LET m == Matching(docs, filter)
        Shape(d) == IF lean THEN d ELSE Hydrate(d)
    IN IF m # <<>>
       THEN LET target == Head(m)
                updated == ApplyUpdate(target, update)
                docs2 == [i \in 1..Len(docs) |->
                             IF docs[i]._id = target._id THEN updated
                             ELSE docs[i]]
            IN IF ~UniqueEmails(docs2)
               THEN Written(Threw(DuplicateKey(kp)), docs)
               ELSE Written(Ok(Shape(IF opts.new THEN updated ELSE target)),
                            docs2)
       ELSE IF opts.upsert
            THEN LET inserted == ApplyUpdate(UpsertBase(id, filter), update)
                 IN IF EmailTaken(docs, inserted.email)
                    THEN Written(Threw(DuplicateKey(kp)), docs)
                    ELSE Written(IF opts.new THEN Ok(Shape(inserted))
                                 ELSE Ok(Null),
                                 Append(docs, inserted))
            ELSE Written(Ok(Null), docs)

(* Model.updateMany(filter, update).exec() *)
DriverUpdateMany(docs, filter, update, kp) ==
    LET docs2 == [i \in 1..Len(docs) |->
                     IF Matches(docs[i], filter)
                     THEN ApplyUpdate(docs[i], update) ELSE docs[i]]
        matched == Len(Matching(docs, filter))
        modified == Cardinality({i \in 1..Len(docs) : docs2[i] # docs[i]})
    IN IF ~UniqueEmails(docs2)
       THEN Written(Threw(DuplicateKey(kp)), docs)
       ELSE Written(Ok([acknowledged |-> TRUE, modifiedCount |-> modified,
                        matchedCount |-> matched, upsertedCount |-> 0,
                        upsertedId |-> Null, electionId |-> 1]),
                    docs2)

(* Model.bulkWrite(operations, { session }) with insertOne operations *)
DriverBulkWrite(docs, inserts, kp) ==
    IF HasDuplicate(docs, inserts)
    THEN Written(Threw(DuplicateKey(kp)), docs)
    ELSE Written(Ok([insertedCount |-> Len(inserts), matchedCount |-> 0,
                     modifiedCount |-> 0, deletedCount |-> 0,
                     upsertedCount |-> 0, ok |-> 1]),
                 docs \o inserts)

(* The facade's update methods: the driver's outcome reaches the caller as
   it is, an error included (no catch) *)
findByIdAndUpdate(driverOutcome) == driverOutcome
findOneAndUpdate(driverOutcome) == driverOutcome
findByIdAndUpdateLean(driverOutcome) == driverOutcome
findOneAndUpdateLean(driverOutcome) == driverOutcome

(* an upsert that wraps the driver call in the duplicate-key handler *)
upsertCatching(driverOutcome) ==
    IF driverOutcome.ok THEN driverOutcome
    ELSE Threw(handleDuplicateKeyError(driverOutcome.error))

(* return doc as HydratedDocument<T> *)
upsert(driverOutcome) == driverOutcome
upsertLean(driverOutcome) == driverOutcome

(* updateMany: the five fields of UpdateResult; upsertedId?.toString() ?? null *)
updateMany(driverOutcome) ==
    IF driverOutcome.ok
    THEN LET r == driverOutcome.value
         IN Ok([acknowledged |-> r.acknowledged,
                modifiedCount |-> r.modifiedCount,
                matchedCount |-> r.matchedCount,
                upsertedCount |-> r.upsertedCount,
                upsertedId |-> r.upsertedId])
    ELSE driverOutcome

(* bulkWrite: the five counts of BulkWriteResult *)
bulkWrite(driverOutcome) ==
    IF driverOutcome.ok
    THEN LET r == driverOutcome.value
         IN Ok([insertedCount |-> r.insertedCount,
                matchedCount |-> r.matchedCount,
                modifiedCount |-> r.modifiedCount,
                deletedCount |-> r.deletedCount,
                upsertedCount |-> r.upsertedCount])
    ELSE driverOutcome

(* A write through the driver: its failure (if the driver fails first) or
   what the operation does *)
Attempt(fail, written, docs) ==
    IF fail # NoError THEN Written(Threw(fail), docs) ELSE written

FindByIdAndUpdate ==
    \E id \in IdInputs, update \in Updates, options \in CallerOptions,
       fail \in UpdateFailures \cup {NoError} :
        LET w == Attempt(fail,
                   DriverFindOneAndUpdate(collection, ObjectId(0, 0, nextId),
                       ById(id), update, Spread(TRUE, FALSE, options), FALSE,
                       UpdateKeyPattern),
                   collection)
        IN /\ Ready
           /\ Len(w.docs) > Len(collection) => nextId <= MaxCreates
           /\ collection' = w.docs
           /\ nextId' = IF Len(w.docs) > Len(collection) THEN nextId + 1
                         ELSE nextId
           /\ last' = Call("findByIdAndUpdate",
                           [filter |-> ById(id), update |-> update,
                            options |-> options],
                           collection, w.out, findByIdAndUpdate(w.out), w.out)
           /\ UNCHANGED <<pg, txnVars>>

FindOneAndUpdate ==
    \E filter \in Filters, update \in Updates,
       options \in UpdateCallerOptions,
       fail \in UpdateFailures \cup {NoError} :
        LET w == Attempt(fail,
                   DriverFindOneAndUpdate(collection, ObjectId(0, 0, nextId),
                       filter, update, Spread(TRUE, FALSE, options), FALSE,
                       UpdateKeyPattern),
                   collection)
        IN /\ Ready
           /\ Len(w.docs) > Len(collection) => nextId <= MaxCreates
           /\ collection' = w.docs
           /\ nextId' = IF Len(w.docs) > Len(collection) THEN nextId + 1
                         ELSE nextId
           /\ last' = Call("findOneAndUpdate",
                           [filter |-> filter, update |-> update,
                            options |-> options],
                           collection, w.out, findOneAndUpdate(w.out), w.out)
           /\ UNCHANGED <<pg, txnVars>>

Upsert ==
    \E filter \in Filters, update \in Updates, options \in CallerOptions,
       fail \in UpdateFailures \cup {NoError} :
        LET w == Attempt(fail,
                   DriverFindOneAndUpdate(collection, ObjectId(0, 0, nextId),
                       filter, update, Spread(TRUE, TRUE, options), FALSE,
                       UpdateKeyPattern),
                   collection)
        IN /\ Ready
           /\ Len(w.docs) > Len(collection) => nextId <= MaxCreates
           /\ collection' = w.docs
           /\ nextId' = IF Len(w.docs) > Len(collection) THEN nextId + 1
                         ELSE nextId
           /\ last' = Call("upsert",
                           [filter |-> filter, update |-> update,
                            options |-> options],
                           collection, w.out, upsert(w.out), w.out)
           /\ UNCHANGED <<pg, txnVars>>

UpsertLean ==
    \E filter \in Filters, update \in Updates, options \in CallerOptions,
       fail \in UpdateFailures \cup {NoError} :
        LET w == Attempt(fail,
                   DriverFindOneAndUpdate(collection, ObjectId(0, 0, nextId),
                       filter, update, Spread(TRUE, TRUE, options), TRUE,
                       UpdateKeyPattern),
                   collection)
        IN /\ Ready
           /\ Len(w.docs) > Len(collection) => nextId <= MaxCreates
           /\ collection' = w.docs
           /\ nextId' = IF Len(w.docs) > Len(collection) THEN nextId + 1
                         ELSE nextId
           /\ last' = Call("upsertLean",
                           [filter |-> filter, update |-> update,
                            options |-> options],
                           collection, w.out, upsertLean(w.out), w.out)
           /\ UNCHANGED <<pg, txnVars>>

UpdateMany ==
    \E filter \in Filters, update \in Updates,
       fail \in UpdateFailures \cup {NoError} :
        LET w == Attempt(fail,
                   DriverUpdateMany(collection, filter, update,
                                    UpdateKeyPattern),
                   collection)
        IN /\ Ready
           /\ collection' = w.docs
           /\ last' = Call("updateMany",
                           [filter |-> filter, update |-> update],
                           collection, w.out, updateMany(w.out), w.out)
           /\ UNCHANGED <<nextId, pg, txnVars>>

BulkWrite ==
    \E e1 \in Emails, e2 \in Emails, fail \in UpdateFailures \cup {NoError} :
        LET docs == <<Doc(ObjectId(0, 0, nextId), e1, TRUE),
                      Doc(ObjectId(0, 0, nextId + 1), e2, TRUE)>>
            w == Attempt(fail,
                         DriverBulkWrite(collection, docs, UpdateKeyPattern),
                         collection)
        IN /\ Ready
           /\ nextId + 1 <= MaxCreates
           /\ collection' = w.docs
           /\ nextId' = IF w.out.ok THEN nextId + 2 ELSE nextId
           /\ last' = Call("bulkWrite", [operations |-> docs], collection,
                           w.out, bulkWrite(w.out), w.out)
           /\ UNCHANGED <<pg, txnVars>>

FindByIdAndUpdateLean ==
    \E id \in IdInputs, update \in Updates, options \in CallerOptions,
       fail \in UpdateFailures \cup {NoError} :
        LET w == Attempt(fail,
                   DriverFindOneAndUpdate(collection, ObjectId(0, 0, nextId),
                       ById(id), update, Spread(TRUE, FALSE, options), TRUE,
                       UpdateKeyPattern),
                   collection)
        IN /\ Ready
           /\ Len(w.docs) > Len(collection) => nextId <= MaxCreates
           /\ collection' = w.docs
           /\ nextId' = IF Len(w.docs) > Len(collection) THEN nextId + 1
                         ELSE nextId
           /\ last' = Call("findByIdAndUpdateLean",
                           [filter |-> ById(id), update |-> update,
                            options |-> options],
                           collection, w.out, findByIdAndUpdateLean(w.out),
                           w.out)
           /\ UNCHANGED <<pg, txnVars>>

FindOneAndUpdateLean ==
    \E filter \in Filters, update \in Updates,
       options \in UpdateCallerOptions,
       fail \in UpdateFailures \cup {NoError} :
        LET w == Attempt(fail,
                   DriverFindOneAndUpdate(collection, ObjectId(0, 0, nextId),
                       filter, update, Spread(TRUE, FALSE, options), TRUE,
                       UpdateKeyPattern),
                   collection)
        IN /\ Ready
           /\ Len(w.docs) > Len(collection) => nextId <= MaxCreates
           /\ collection' = w.docs
           /\ nextId' = IF Len(w.docs) > Len(collection) THEN nextId + 1
                         ELSE nextId
           /\ last' = Call("findOneAndUpdateLean",
                           [filter |-> filter, update |-> update,
                            options |-> options],
                           collection, w.out, findOneAndUpdateLean(w.out),
                           w.out)
           /\ UNCHANGED <<pg, txnVars>>

(* The caller takes the outcome of its call *)
Return ==
    /\ ~Ready
    /\ last' = NoCall
    /\ UNCHANGED <<dbVars, pg, txnVars>>

(* Creates, lookups and deletes *)
RepoNext ==
    \/ Create
    \/ CreatePlain
    \/ CreateMany
    \/ FindByIdPair
    \/ FindByIdLeanPair
    \/ FindOnePair
    \/ FindOneLeanPair
    \/ FindByIdAndDelete
    \/ Return

SpecRepo == Init /\ [][RepoNext]_vars

(* Creates, updates and upserts *)
WriteNext ==
    \/ Create
    \/ CreatePlain
    \/ CreateMany
    \/ FindByIdAndDelete
    \/ FindByIdAndUpdate
    \/ FindOneAndUpdate
    \/ Upsert
    \/ UpsertLean
    \/ UpdateMany
    \/ BulkWrite
    \/ Return

SpecWrite == Init /\ [][WriteNext]_vars

(* Creates and the four find-and-update methods *)
UpdateNext ==
    \/ Create
    \/ FindByIdAndUpdate
    \/ FindByIdAndUpdateLean
    \/ FindOneAndUpdate
    \/ FindOneAndUpdateLean
    \/ Return

SpecUpdate == Init /\ [][UpdateNext]_vars

(* One caller that creates records, looks them up by _id, deletes and
   updates by _id, and then runs one transaction that creates and looks up
   more *)
RoundTripCaller == "c1"
NotStarted == pc[RoundTripCaller] = "idle"

RoundTripNext ==
    \/ Ready /\ withTransaction(RoundTripCaller)
    \/ NotStarted /\ Create
    \/ NotStarted /\ CreatePlain
    \/ NotStarted /\ FindByIdPair
    \/ NotStarted /\ FindByIdAndDelete
    \/ NotStarted /\ FindByIdAndUpdate
    \/ NotStarted /\ Return

SpecRoundTrip == Init /\ [][RoundTripNext]_vars

----------------------------------------------------------------------------
(* paginate *)

ExceededTimeLimit ==
    Err("MongoServerError", TRUE, TRUE, 50, NoKeyPattern, "none",
        <<"operation exceeded time limit">>)

(* const skip = (page - 1) * limit, and a skip of one page too many *)
SkipOfNextPage(page, limit) == page * limit
SkipOf(page, limit) == (page - 1) * limit

(* Math.ceil(total / limit), limit >= 1 *)
MathCeil(total, limit) == (total + limit - 1) \div limit

(* { ...opts, skip, limit } *)
PageQueryOptions(opts, skip, limit) ==
    [filter |-> opts.filter, projection |-> opts.projection,
     sort |-> opts.sort, skip |-> skip, limit |-> limit]

PaginatedResult(data, total, page, limit) ==
    LET totalPages == MathCeil(total, limit)
    IN [data |-> data, total |-> total, page |-> page, limit |-> limit,
        totalPages |-> totalPages, hasNextPage |-> page < totalPages,
        hasPrevPage |-> page > 1]

PageFilters == {NoFilter, ByActive(TRUE)}
Sorts == {"none", "createdAt:-1"}

(* paginate is called: skip and filter are computed and both queries are
   started, before either is awaited *)
Paginate ==
    \E page \in 1..MaxPage, limit \in 1..MaxLimit, filter \in PageFilters,
       projection \in Projections, sort \in Sorts :
        /\ pg.pc = "idle"
        /\ pg' = [NoPaginate EXCEPT
                     !.pc = "queries", !.page = page, !.limit = limit,
                     !.opts = FindOptions(filter, projection, sort),
                     !.skip = SkipOf(page, limit), !.filter = filter]
        /\ UNCHANGED <<last, dbVars, txnVars>>

(* this.findLean({ ...opts, skip, limit }) settles *)
PageQuery ==
    \E fails \in BOOLEAN :
        /\ pg.pc = "queries"
        /\ ~Settled(pg.data)
        /\ pg' = [pg EXCEPT
                     !.data = Driver(fails,
                                  findLean(collection,
                                      PageQueryOptions(pg.opts, pg.skip,
                                                       pg.limit))),
                     !.first = IF @ = "none" THEN "page" ELSE @]
        /\ UNCHANGED <<last, dbVars, txnVars>>

(* this.model.countDocuments(filter).exec() settles *)
CountQuery ==
    \E fails \in BOOLEAN :
        /\ pg.pc = "queries"
        /\ ~Settled(pg.total)
        /\ pg' = [pg EXCEPT
                     !.total = IF fails THEN Threw(ExceededTimeLimit)
                               ELSE Ok(countDocuments(collection, pg.filter)),
                     !.first = IF @ = "none" THEN "count" ELSE @]
        /\ UNCHANGED <<last, dbVars, txnVars>>

(* a result built as soon as the page query has resolved, without awaiting
   the count *)
PaginateReturnAfterPage ==
    /\ pg.pc = "queries"
    /\ pg.data.ok
    /\ pg' = [pg EXCEPT
                 !.pc = "returned",
                 !.out = Ok(PaginatedResult(pg.data.value,
                                IF pg.total.ok THEN pg.total.value ELSE 0,
                                pg.page, pg.limit))]
    /\ UNCHANGED <<last, dbVars, txnVars>>

(* Promise.all resolved: the result is built and returned *)
PaginateReturn ==
    /\ pg.pc = "queries"
    /\ pg.data.ok /\ pg.total.ok
    /\ pg' = [pg EXCEPT
                 !.pc = "returned",
                 !.out = Ok(PaginatedResult(pg.data.value, pg.total.value,
                                            pg.page, pg.limit))]
    /\ UNCHANGED <<last, dbVars, txnVars>>

(* Promise.all rejected with the error of the query that failed first *)
PaginateThrow ==
    LET pageFailed == Settled(pg.data) /\ ~pg.data.ok
        countFailed == Settled(pg.total) /\ ~pg.total.ok
    IN /\ pg.pc = "queries"
       /\ pageFailed \/ countFailed
       /\ pg' = [pg EXCEPT
                    !.pc = "threw",
                    !.out = IF pageFailed /\ (pg.first = "page" \/ ~countFailed)
                            THEN pg.data ELSE pg.total]
       /\ UNCHANGED <<last, dbVars, txnVars>>

(* Another caller's create lands between the two queries *)
InterleavedCreate ==
    /\ pg.pc = "queries"
    /\ Settled(pg.data) # Settled(pg.total)
    /\ ~pg.wrote
    /\ collection' = Append(collection,
                            Doc(ObjectId(0, 0, nextId), Email(nextId), TRUE))
    /\ nextId' = nextId + 1
    /\ pg' = [pg EXCEPT !.wrote = TRUE]
    /\ UNCHANGED <<last, txnVars>>

(* Another caller's findByIdAndDelete lands between the two queries *)
InterleavedDelete ==
    /\ pg.pc = "queries"
    /\ Settled(pg.data) # Settled(pg.total)
    /\ ~pg.wrote
    /\ collection # <<>>
    /\ collection' = Tail(collection)
    /\ pg' = [pg EXCEPT !.wrote = TRUE]
    /\ UNCHANGED <<last, nextId, txnVars>>

(* A collection of n users made by n creates; every third one was made
   inactive *)
Seeded(n) == [i \in 1..n |-> Doc(ObjectId(0, 0, i), Email(i), i % 3 # 0)]

InitPaginate ==
    /\ \E n \in 0..MaxTotal : collection = Seeded(n) /\ nextId = n + 1
    /\ last = NoCall
    /\ pg = NoPaginate
    /\ TxnInit

PaginateNext ==
    \/ Paginate
    \/ PageQuery
    \/ CountQuery
    \/ PaginateReturn
    \/ PaginateThrow
    \/ InterleavedCreate
    \/ InterleavedDelete

SpecPaginate == InitPaginate /\ [][PaginateNext]_vars

----------------------------------------------------------------------------
(* Properties of the direct calls *)

ReadOps == {"findById", "findOne", "findByIdLean", "findOneLean"}
CreateOps == {"create", "createPlain", "createMany"}
UpdateOps == {"findByIdAndUpdate", "findOneAndUpdate", "updateMany", "upsert",
              "upsertLean", "bulkWrite"}

IsNotFound(outcome) ==
    ~outcome.ok /\ outcome.error.name = "NotFoundException"
IsConflict(outcome) ==
    ~outcome.ok /\ outcome.error.name = "ConflictException"
IsUniquenessViolation(outcome) ==
    ~outcome.ok /\ outcome.error.hasCode /\ outcome.error.code = 11000
Absent(outcome) == outcome.ok /\ outcome.value = Null
Present(outcome) == outcome.ok /\ outcome.value # Null

(* C5: for each lookup and its OrFail form, on the same input and the same
   collection: the lookup returns absent exactly if the OrFail form raises
   NotFoundError, and when the lookup returns a record the OrFail form
   returns an equal record. *)
C5_OrFailEquivalence ==
    last.op \in ReadOps =>
        /\ Absent(last.out) <=> IsNotFound(last.alt)
        /\ Present(last.out) =>
               last.alt.ok /\ last.alt.value = last.out.value

C5_Witness ==
    /\ last.op = "findOneLean"
    /\ Absent(last.out)
    /\ IsNotFound(last.alt)
    /\ collection # <<>>

(* The field the message is to name: the first key of the error's
   keyPattern, "unknown" when the error carries none *)
ViolatingField(error) ==
    IF error.keyPattern.present /\ error.keyPattern.keys # <<>>
    THEN error.keyPattern.keys[1]
    ELSE "unknown"

(* C6: when the driver call inside create or createMany raises a uniqueness
   violation (code 11000), the caller receives a ConflictError whose message
   names the entity and the violating field, "unknown" when none is
   available; any other error reaches the caller unchanged. *)
C6_ConflictTranslation ==
    (last.op \in {"create", "createMany"} /\ ~last.driver.ok) =>
        IF IsUniquenessViolation(last.driver)
        THEN /\ IsConflict(last.out)
             /\ last.out.error.message =
                    <<EntityName, " with duplicate \"",
                      ViolatingField(last.driver.error),
                      "\" already exists">>
        ELSE ~last.out.ok /\ last.out.error = last.driver.error

C6_Witness ==
    /\ last.op = "create"
    /\ IsUniquenessViolation(last.driver)
    /\ IsConflict(last.out)
    /\ last.out.error.message[3] = "email"

(* C7: ConflictError comes only from create, createPlain and createMany, and
   only for a uniqueness violation; a uniqueness violation raised during
   findByIdAndUpdate, findOneAndUpdate, updateMany, upsert, upsertLean or
   bulkWrite reaches the caller as the raw driver error. *)
C7_ConflictOnlyFromCreate ==
    /\ (last.op # "none" /\ IsConflict(last.out)) =>
           last.op \in CreateOps /\ IsUniquenessViolation(last.driver)
    /\ (last.op \in UpdateOps /\ ~last.driver.ok) =>
           ~last.out.ok /\ last.out.error = last.driver.error

C7_Witness ==
    /\ last.op = "upsert"
    /\ IsUniquenessViolation(last.driver)
    /\ IsUniquenessViolation(last.out)

(* C10 as claimed: for any filter, update and caller options, upsert and
   upsertLean never return absent: with no match exactly one record
   satisfying the update is created and returned, with one match that record
   is modified in place and its post-update state returned. *)
Returned(outcome) ==
    IF last.op = "upsert" /\ outcome.value # Null
    THEN toObject(outcome.value)
    ELSE outcome.value

UpsertReturned ==
    last.op \in {"upsert", "upsertLean"} /\ last.out.ok

UpsertCreated(m) ==
    /\ Len(collection) = Len(last.pre) + 1
    /\ SubSeq(collection, 1, Len(last.pre)) = last.pre
    /\ Satisfies(collection[Len(collection)], last.input.update)
    /\ Returned(last.out) = collection[Len(collection)]

UpsertModified(m) ==
    /\ Len(collection) = Len(last.pre)
    /\ Returned(last.out) = ApplyUpdate(m[1], last.input.update)
    /\ \E i \in 1..Len(collection) :
           /\ last.pre[i] = m[1]
           /\ collection[i] = Returned(last.out)

C10_UpsertNeverAbsent ==
    UpsertReturned =>
        LET m == Matching(last.pre, last.input.filter)
        IN  /\ last.out.value # Null
            /\ (m = <<>>) => UpsertCreated(m)
            /\ (Len(m) = 1) => UpsertModified(m)

----------------------------------------------------------------------------
(* Properties of paginate *)

(* k is the least whole number of pages of `limit` that hold `total` *)
IsCeil(k, total, limit) ==
    k >= 0 /\ k * limit >= total /\ (k - 1) * limit < total

(* data is the run of the sorted, filtered, projected documents that starts
   after `skip` of them *)
IsSliceFrom(data, skip) ==
    LET m == SortDocs(Matching(collection, pg.opts.filter), pg.opts.sort)
    IN \A i \in 1..Len(data) :
           /\ skip + i <= Len(m)
           /\ data[i] = Project(m[skip + i], pg.opts.projection)

(* C8: for page >= 1 and limit >= 1, paginate queries with
   skip = (page-1)*limit and returns totalPages = ceil(total/limit),
   hasNextPage = (page < totalPages), hasPrevPage = (page > 1), page and
   limit echoed; on a collection that holds the counted records throughout
   the call, total=0, limit=10, page=1 gives totalPages=0, both flags false
   and no data, and total=25, limit=10, page=3 gives totalPages=3,
   hasNextPage false, hasPrevPage true and 5 records. *)
C8_PaginateArithmetic ==
    (pg.pc = "returned" /\ pg.page >= 1 /\ pg.limit >= 1) =>
        LET r == pg.out.value
        IN /\ pg.skip = (pg.page - 1) * pg.limit
           /\ ~pg.wrote => IsSliceFrom(r.data, (pg.page - 1) * pg.limit)
           /\ r.page = pg.page /\ r.limit = pg.limit
           /\ IsCeil(r.totalPages, r.total, r.limit)
           /\ r.hasNextPage <=> (r.page < r.totalPages)
           /\ r.hasPrevPage <=> (r.page > 1)
           /\ (r.total = 0 /\ r.limit = 10 /\ r.page = 1 /\ ~pg.wrote) =>
                  /\ r.totalPages = 0
                  /\ ~r.hasNextPage /\ ~r.hasPrevPage
                  /\ r.data = <<>>
           /\ (r.total = 25 /\ r.limit = 10 /\ r.page = 3 /\ ~pg.wrote) =>
                  /\ r.totalPages = 3
                  /\ ~r.hasNextPage /\ r.hasPrevPage
                  /\ Len(r.data) = 5

C8_Witness ==
    /\ pg.pc = "returned"
    /\ ~pg.wrote
    /\ pg.out.value.total = 25
    /\ pg.limit = 10 /\ pg.page = 3
    /\ Len(pg.out.value.data) = 5
    /\ pg.out.value.totalPages = 3

(* C9: no bound is enforced on page: with limit >= 1 and no write between
   the two queries, a page greater than totalPages yields empty data while
   total is the exact number of records matching the caller's filter
   (whatever the sort, skip, limit and projection) and totalPages is
   ceil(total/limit); a page within range holds at most limit records. *)
C9_PageBeyondEnd ==
    (pg.pc = "returned" /\ pg.limit >= 1) =>
        LET r == pg.out.value
        IN /\ ~pg.wrote =>
                  /\ r.total =
                         Cardinality({i \in 1..Len(collection) :
                                         Matches(collection[i],
                                                 pg.opts.filter)})
                  /\ IsCeil(r.totalPages, r.total, r.limit)
                  /\ r.page > r.totalPages => r.data = <<>>
           /\ r.page <= r.totalPages => Len(r.data) <= r.limit

C9_Witness ==
    /\ pg.pc = "returned"
    /\ ~pg.wrote
    /\ pg.opts.filter = ByActive(TRUE)
    /\ pg.opts.sort = "createdAt:-1"
    /\ pg.opts.projection = {"email"}
    /\ pg.out.value.total > 0
    /\ pg.out.value.total < Len(collection)
    /\ pg.page > pg.out.value.totalPages
    /\ pg.out.value.data = <<>>

----------------------------------------------------------------------------
(* Properties of the find-and-update methods *)

FindAndUpdateOps ==
    {"findByIdAndUpdate", "findByIdAndUpdateLean", "findOneAndUpdate",
     "findOneAndUpdateLean"}

FindAndUpdateReturned == last.op \in FindAndUpdateOps /\ last.out.ok

(* The data of what a find-and-update returned *)
DataOf(v) ==
    IF v = Null THEN Null
    ELSE IF last.op \in {"findByIdAndUpdate", "findOneAndUpdate"}
         THEN toObject(v)
         ELSE v

SetsReturnDocument == "new" \in last.input.options.keys
AsksUpsert ==
    "upsert" \in last.input.options.keys /\ last.input.options.upsert

(* The matched record after the update, unless the caller set the
   return-document option *)
ReturnsPostUpdate(m) ==
    (m # <<>> /\ ~SetsReturnDocument) =>
        DataOf(last.out.value) = ApplyUpdate(Head(m), last.input.update)

(* C11 as claimed: the four find-and-update methods return the post-update
   state of the matched record, the caller's return-document option apart,
   and absent whenever nothing matches. *)
C11_PostUpdateOrAbsent ==
    FindAndUpdateReturned =>
        LET m == Matching(last.pre, last.input.filter)
        IN /\ ReturnsPostUpdate(m)
           /\ (m = <<>>) => last.out.value = Null

(* C11, amended: the four find-and-update methods return the post-update
   state of the matched record unless the caller's options set the
   return-document option; when nothing matches they return absent and
   write nothing, unless the caller's options ask for an upsert: then
   one record satisfying the update is inserted and returned. *)
C11_PostUpdateOrAbsentUnlessUpsert ==
    FindAndUpdateReturned =>
        LET m == Matching(last.pre, last.input.filter)
        IN /\ ReturnsPostUpdate(m)
           /\ (m = <<>> /\ ~AsksUpsert) =>
                  last.out.value = Null /\ collection = last.pre
           /\ (m = <<>> /\ AsksUpsert) =>
                  /\ Len(collection) = Len(last.pre) + 1
                  /\ Satisfies(collection[Len(collection)],
                               last.input.update)
                  /\ DataOf(last.out.value) = collection[Len(collection)]

C11_Witness ==
    /\ last.op = "findOneAndUpdateLean"
    /\ last.out.ok
    /\ last.input.options = NoOptions
    /\ Len(last.pre) = 2
    /\ Matching(last.pre, last.input.filter) # <<>>
    /\ Head(Matching(last.pre, last.input.filter)) # last.out.value
    /\ last.out.value \in SeqToSet(collection)
    /\ ~(last.out.value \in SeqToSet(last.pre))

----------------------------------------------------------------------------
(* Round trip *)

(* findByIdOrFail(d._id) returns a record with the data d, and does not
   raise NotFoundError even when the driver fails *)
Found(docs, d) ==
    LET r == findByIdOrFail(docs, d._id, [projection |-> {}], FALSE)
    IN /\ r.ok
       /\ toObject(r.value) = d
       /\ ~IsNotFound(findByIdOrFail(docs, d._id, [projection |-> {}], TRUE))

(* createPlain(data) against create(data), on the same driver outcome *)
PlainIsToObjectOfCreate ==
    last.op = "createPlain" =>
        IF last.alt.ok
        THEN /\ last.out.ok
             /\ last.out.value = toObject(last.alt.value)
             /\ last.out.value = last.input.data
        ELSE last.out = last.alt

(* The records create has returned inside a running transaction *)
ReturnedInTransaction(c) == SeqToSet(staged[c])

(* C12 as claimed: every record create has returned, inside a transaction
   or not, and that nothing has deleted or updated since, is returned with
   the same data by findByIdOrFail, which never raises NotFoundError; and
   createPlain returns the plain data of what create returns. *)
C12_RoundTripOfEveryCreate ==
    /\ \A c \in Calls : \A d \in ReturnedInTransaction(c) :
           Found(collection, d)
    /\ (last.op \in {"create", "createPlain"} /\ last.alt.ok) =>
           Found(collection, toObject(last.alt.value))
    /\ PlainIsToObjectOfCreate

(* A direct call is made in this step *)
CallMade == last.op = "none" /\ last'.op # "none"

(* create or createPlain returns a record in this step *)
CreateReturns ==
    CallMade /\ last'.op \in {"create", "createPlain"} /\ last'.alt.ok

(* the transaction of c commits in this step *)
Commits(c) ==
    /\ hist'[c].txn = "committed"
    /\ sessions' # sessions
    /\ staged'[c] = <<>>

(* this step deletes or updates the record with the _id of d *)
Touches(d) ==
    /\ CallMade
    /\ \/ last'.op = "findByIdAndDelete" /\ last'.input.id = d._id
       \/ last'.op = "findByIdAndUpdate" /\ last'.input.filter._id = d._id

RoundTripStep ==
    /\ CreateReturns => Found(collection', toObject(last'.alt.value))
    /\ \A c \in Calls :
           Commits(c) =>
               \A d \in ReturnedInTransaction(c) : Found(collection', d)
    /\ \A d \in SeqToSet(collection) :
           (Found(collection, d) /\ ~Touches(d)) => Found(collection', d)

(* C12, amended: a record that create has returned outside a transaction,
   or inside a transaction that has since committed, is returned with the
   same data by findByIdOrFail, which does not raise NotFoundError, as long
   as no operation has since deleted or updated that record; and createPlain
   returns the plain data of what create returns. *)
C12_RoundTripOnceCommitted ==
    /\ []PlainIsToObjectOfCreate
    /\ [][RoundTripStep]_vars

(* a record created directly and a record created in a transaction that
   has committed are both in the collection and both found *)
C12_Witness ==
    /\ hist[RoundTripCaller].txn = "committed"
    /\ pc[RoundTripCaller] = "done"
    /\ last.op = "none"
    /\ Len(collection) = 2
    /\ \A d \in SeqToSet(collection) : Found(collection, d)
    /\ \E d \in SeqToSet(collection) : d._id[1] = 0
    /\ \E d \in SeqToSet(collection) : d._id[1] # 0

----------------------------------------------------------------------------
(* The two queries of paginate *)

PageFailed == Settled(pg.data) /\ ~pg.data.ok
CountFailed == Settled(pg.total) /\ ~pg.total.ok

Smaller(a, b) == IF a <= b THEN a ELSE b
Larger(a, b) == IF a >= b THEN a ELSE b

(* What paginate returns on a collection no one writes to during the call:
   a function of its arguments and the collection alone *)
ResultOn(docs) ==
    PaginatedResult(findLean(docs, PageQueryOptions(pg.opts, pg.skip,
                                                    pg.limit)),
                    countDocuments(docs, pg.filter), pg.page, pg.limit)

(* C13: paginate's page query and count query are started together and
   neither waits for the other: while one is pending it can settle, whether
   or not the other has. The result is produced only after both have
   completed, whichever finished first; with no write between them it is
   the same for either completion order (it is determined by the arguments
   and the collection) and data.length = min(limit, max(0, total - skip));
   if either query fails, paginate cannot return, fails with the error of a
   failed query, and produces no result. *)
C13_ConcurrentQueries ==
    /\ pg.pc = "queries" =>
           /\ ~Settled(pg.data) => ENABLED PageQuery
           /\ ~Settled(pg.total) => ENABLED CountQuery
           /\ ~(Settled(pg.data) /\ Settled(pg.total)) =>
                  ~ENABLED PaginateReturn
           /\ (PageFailed \/ CountFailed) =>
                  ENABLED PaginateThrow /\ ~ENABLED PaginateReturn
           /\ pg.out = Unsettled
    /\ pg.pc = "returned" =>
           /\ pg.data.ok /\ pg.total.ok
           /\ pg.first \in {"page", "count"}
           /\ pg.out.ok
           /\ ~pg.wrote =>
                  /\ pg.out.value = ResultOn(collection)
                  /\ Len(pg.out.value.data) =
                         Smaller(pg.limit,
                                 Larger(0, pg.out.value.total - pg.skip))
    /\ pg.pc = "threw" =>
           /\ PageFailed \/ CountFailed
           /\ ~pg.out.ok
           /\ \/ PageFailed /\ pg.out.error = pg.data.error
              \/ CountFailed /\ pg.out.error = pg.total.error
           /\ (PageFailed /\ ~CountFailed) => pg.out.error = NetworkError
           /\ (CountFailed /\ ~PageFailed) =>
                  pg.out.error = ExceededTimeLimit

(* the count query finished first, the page query second, no write came
   between them, and the page returned is a short last page *)
C13_Witness ==
    /\ pg.pc = "returned"
    /\ pg.first = "count"
    /\ ~pg.wrote
    /\ pg.out.value = ResultOn(collection)
    /\ pg.out.value.total > pg.skip
    /\ Len(pg.out.value.data) = pg.out.value.total - pg.skip
    /\ Len(pg.out.value.data) < pg.limit

----------------------------------------------------------------------------
(* Errors raised in the callback of withTransaction *)

CallbackRaised(c) == hist[c].cb = "raised"
Transient(err) == err.label = "TransientTransactionError"
Failed(err) == [kind |-> "threw", value |-> Undefined, error |-> err]

(* The error the callback raised is on its way to the caller, or has
   reached it: the transaction is aborted, then the session ended, then
   the call fails with that error and returns no value *)
Propagates(c) ==
    /\ thrown[c] # NoError
    /\ pc[c] \in {"raised", "finally", "done"}
    /\ result[c] = Undefined \/ attempt[c] > 1
    /\ pc[c] = "raised" =>
           SessionOf(c).state = "inTransaction" /\ delivered[c] = Pending
    /\ pc[c] = "finally" =>
           /\ SessionOf(c).state = "aborted"
           /\ hist[c].txn = "aborted"
           /\ hist[c].writes \cap Visible = {}
           /\ delivered[c] = Pending
    /\ pc[c] = "done" =>
           /\ SessionOf(c).state = "ended"
           /\ hist[c].txn = "aborted"
           /\ delivered[c] = Failed(thrown[c])

(* C14 as claimed: whatever error the callback raised, the call goes on to
   abort, end the session and fail with that error; the callback is not run
   again and no value is returned. *)
C14_CallbackErrorPropagates ==
    \A c \in Calls : CallbackRaised(c) => Propagates(c)

(* The errors a callback raises here: its own, or those of the repository
   calls it makes *)
RaisedByCallback(err) ==
    \/ err = AppError
    \/ err = WriteConflict
    \/ err.name = "ConflictException" /\ ~Transient(err)
    \/ err.name = "NotFoundException" /\ ~Transient(err)

(* The steps of a call whose callback raised: the error is kept as it is,
   and the callback is run again only by the driver, for a transient error *)
KeepsError(c) ==
    /\ (pc[c] = "running" /\ pc'[c] = "raised") =>
           RaisedByCallback(thrown'[c])
    /\ (pc[c] = "raised" /\ pc'[c] # "raised") =>
           \/ pc'[c] = "finally" /\ thrown'[c] = thrown[c]
           \/ pc'[c] = "opened" /\ Transient(thrown[c])
    /\ (pc[c] \in {"finally", "done"} /\ thrown[c] # NoError) =>
           /\ thrown'[c] = thrown[c]
           /\ pc'[c] \in {"finally", "done"}
           /\ delivered'[c].kind # "returned"

(* C14, amended: an error raised inside the callback (a ConflictError or
   NotFoundError of a repository call included) is not caught, retried or
   reinterpreted by the facade. Unless the error carries the driver's
   transient-transaction label, for which the driver's primitive may abort
   and run the callback again, the transaction is aborted, the session is
   ended, and withTransaction then fails to its caller with that same error
   and returns no value. *)
C14_CallbackErrorPropagatesUnlessTransient ==
    /\ [](\A c \in Calls :
            (CallbackRaised(c) /\ pc[c] # "opened") => Propagates(c))
    /\ [][\A c \in Calls : KeepsError(c)]_vars

(* one call failed with the ConflictException of a create in its callback,
   another with the NotFoundException of a findByIdOrFail in its callback *)
C14_Witness ==
    \E c1 \in Calls, c2 \in Calls :
        /\ pc[c1] = "done" /\ pc[c2] = "done"
        /\ CallbackRaised(c1) /\ CallbackRaised(c2)
        /\ delivered[c1].kind = "threw"
        /\ delivered[c1].error.name = "ConflictException"
        /\ delivered[c2].kind = "threw"
        /\ delivered[c2].error.name = "NotFoundException"
        /\ SessionOf(c1).state = "ended" /\ SessionOf(c2).state = "ended"

====
